---- MODULE Spec2Model ----
(***************************************************************************)
(* A model of immimaps.preprocessing: the PERM preprocessing pipeline.     *)
(*                                                                         *)
(* Python text is modelled as a sequence of one-character strings, so that *)
(* lowercasing, stripping, prefix replacement, digit extraction and        *)
(* padding are computed character by character, as the code computes them. *)
(* A DataFrame cell is a record: missing (NaN/None/<NA>), text or number.   *)
(***************************************************************************)
EXTENDS Integers, Sequences, FiniteSets, TLC

----------------------------------------------------------------------------
(* Characters and the str methods the code uses *)

Digits == <<"0","1","2","3","4","5","6","7","8","9">>

LowerAlpha ==
  <<"a","b","c","d","e","f","g","h","i","j","k","l","m",
    "n","o","p","q","r","s","t","u","v","w","x","y","z">>

UpperAlpha ==
  <<"A","B","C","D","E","F","G","H","I","J","K","L","M",
    "N","O","P","Q","R","S","T","U","V","W","X","Y","Z">>

Whitespace == {" ", "\t"}

\* list(f): the sequence f with every element computed, once
list(f) == f \o <<>>

IsDigit(c) == \E i \in DOMAIN Digits : Digits[i] = c

DigitVal(c) == (CHOOSE i \in DOMAIN Digits : Digits[i] = c) - 1

\* str.lower / str.upper on one character
lower_char(c) ==
  IF \E i \in DOMAIN UpperAlpha : UpperAlpha[i] = c
  THEN LowerAlpha[CHOOSE i \in DOMAIN UpperAlpha : UpperAlpha[i] = c]
  ELSE c

upper_char(c) ==
  IF \E i \in DOMAIN LowerAlpha : LowerAlpha[i] = c
  THEN UpperAlpha[CHOOSE i \in DOMAIN LowerAlpha : LowerAlpha[i] = c]
  ELSE c

str_lower(s) == list([i \in 1..Len(s) |-> lower_char(s[i])])

str_upper(s) == list([i \in 1..Len(s) |-> upper_char(s[i])])

\* s.replace(a, b) for one-character a and b
str_replace(s, a, b) ==
  list([i \in 1..Len(s) |-> IF s[i] = a THEN b ELSE s[i]])

\* s.replace(a, '') for a one-character a
str_remove(s, a) == SelectSeq(s, LAMBDA c : c # a)

SetMin(S) == CHOOSE a \in S : \A b \in S : a <= b

SetMax(S) == CHOOSE a \in S : \A b \in S : b <= a

\* s.strip(chars)
str_strip(s, chars) ==
  LET keep == {i \in 1..Len(s) : s[i] \notin chars}
  IN IF keep = {} THEN <<>> ELSE SubSeq(s, SetMin(keep), SetMax(keep))

\* the decimal digits of a natural number: str(n)
RECURSIVE str_of_int(_)
str_of_int(n) ==
  IF n < 10 THEN <<Digits[n + 1]>>
  ELSE str_of_int(n \div 10) \o <<Digits[(n % 10) + 1]>>

\* int(s[1..n]) for a run of digits
RECURSIVE int_of_digits(_, _)
int_of_digits(s, n) ==
  IF n = 0 THEN 0 ELSE 10 * int_of_digits(s, n - 1) + DigitVal(s[n])

int_of_str(s) == int_of_digits(s, Len(s))

\* the run of digits that s has from position `from` on, cut at `most`
\* characters: what \d+ or \d{1,most} matches there
digit_run(s, from, most) ==
  LET stop == {i \in from..Len(s) : ~IsDigit(s[i])}
      end  == IF stop = {} THEN Len(s) ELSE SetMin(stop) - 1
  IN SubSeq(s, from, IF end - from + 1 > most THEN from + most - 1 ELSE end)

\* re.match of a pattern of literal characters and '.' at the start of s,
\* with re.IGNORECASE when `nocase`
regex_prefix(pattern, s, nocase) ==
  /\ Len(pattern) <= Len(s)
  /\ \A i \in 1..Len(pattern) :
       \/ pattern[i] = "." /\ s[i] # "\n"
       \/ pattern[i] = s[i]
       \/ nocase /\ lower_char(pattern[i]) = lower_char(s[i])

\* Series.str.replace('^' + pattern, repl, case=False, regex=True) on one value
replace_prefix(s, pattern, repl) ==
  IF regex_prefix(pattern, s, TRUE)
  THEN repl \o SubSeq(s, Len(pattern) + 1, Len(s))
  ELSE s

\* s.split(n=1): the first whitespace-delimited token, <<>> when there is none
first_token(s) ==
  LET ink   == {i \in 1..Len(s) : s[i] \notin Whitespace}
      start == IF ink = {} THEN 1 ELSE SetMin(ink)
      gaps  == {i \in start..Len(s) : s[i] \in Whitespace}
  IN IF ink = {} THEN <<>>
     ELSE SubSeq(s, start, IF gaps = {} THEN Len(s) ELSE SetMin(gaps) - 1)

----------------------------------------------------------------------------
(* DataFrame cells *)

NA == [kind |-> "na", s |-> <<>>, n |-> 0]

Text(s) == [kind |-> "text", s |-> s, n |-> 0]

Num(n) == [kind |-> "num", s |-> <<>>, n |-> n]

isna(c) == c.kind = "na"

\* Series.astype('string') on one cell
astype_string(c) ==
  IF c.kind = "num" THEN Text(str_of_int(c.n)) ELSE c

\* pd.to_numeric(..., errors='coerce') on one cell: a run of decimal digits
\* parses, any other text is coerced to missing (the texts of the model hold
\* no sign, decimal point or exponent)
to_numeric(c) ==
  IF c.kind = "text"
  THEN IF c.s # <<>> /\ \A i \in 1..Len(c.s) : IsDigit(c.s[i])
       THEN Num(int_of_str(c.s))
       ELSE NA
  ELSE c

----------------------------------------------------------------------------
(* The schema registry *)

_STATUS_COLUMN ==
  << [key |-> <<"c","a","s","e","_","s","t","a","t","u","s">>,
      aliases |-> << <<"c","a","s","e","_","s","t","a","t","u","s">> >>] >>

_CERT_STATUSES ==
  << <<"c","e","r","t","i","f","i","e","d">>,
     <<"c","e","r","t","i","f","i","e","d","-","e","x","p","i","r","e","d">> >>

_DATA_COLUMNS ==
  << [key |-> <<"c","a","s","e","_","n","u","m","b","e","r">>,
      aliases |-> <<<<"c","a","s","e","_","n","u","m","b","e","r">>,
                    <<"c","a","s","e","_","n","o">>>>],
     [key |-> <<"f","i","s","c","a","l","_","y","e","a","r">>,
      aliases |-> <<>>],
     [key |-> <<"e","m","p","l","o","y","e","r","_","c","i","t","y">>,
      aliases |-> <<<<"e","m","p","l","o","y","e","r","_","c","i","t","y">>>>],
     [key |-> <<"e","m","p","l","o","y","e","r","_","s","t","a","t","e">>,
      aliases |-> <<<<"e","m","p","l","o","y","e","r","_","s","t","a","t","e">>,
                    <<"e","m","p","l","o","y","e","r","_","s","t","a","t","e","_","p","r","o","v","i","n","c","e">>>>],
     [key |-> <<"e","m","p","l","o","y","e","r","_","p","o","s","t","a","l","_","c","o","d","e">>,
      aliases |-> <<<<"e","m","p","l","o","y","e","r","_","p","o","s","t","a","l","_","c","o","d","e">>>>],
     [key |-> <<"e","m","p","l","o","y","e","r","_","c","o","u","n","t","r","y">>,
      aliases |-> <<<<"e","m","p","l","o","y","e","r","_","c","o","u","n","t","r","y">>>>],
     [key |-> <<"e","m","p","l","o","y","e","r","_","n","u","m","_","e","m","p","l","o","y","e","e","s">>,
      aliases |-> <<<<"e","m","p","l","o","y","e","r","_","n","u","m","_","e","m","p","l","o","y","e","e","s">>>>],
     [key |-> <<"e","m","p","l","o","y","e","r","_","y","e","a","r","_","e","s","t","a","b","l","i","s","h","e","d">>,
      aliases |-> <<<<"e","m","p","l","o","y","e","r","_","y","r","_","e","s","t","a","b">>,
                    <<"e","m","p","l","o","y","e","r","_","y","e","a","r","_","c","o","m","m","e","n","c","e","d","_","b","u","s","i","n","e","s","s">>,
                    <<"e","m","p","_","y","e","a","r","_","c","o","m","m","e","n","c","e","d","_","b","u","s","i","n","e","s","s">>>>],
     [key |-> <<"e","m","p","l","o","y","e","r","_","e","c","o","n","o","m","i","c","_","s","e","c","t","o","r">>,
      aliases |-> <<<<"u","s","_","e","c","o","n","o","m","i","c","_","s","e","c","t","o","r">>>>],
     [key |-> <<"j","o","b","_","t","i","t","l","e">>,
      aliases |-> <<<<"j","o","b","_","i","n","f","o","_","j","o","b","_","t","i","t","l","e">>,
                    <<"j","o","b","_","t","i","t","l","e">>>>],
     [key |-> <<"j","o","b","_","c","i","t","y">>,
      aliases |-> <<<<"j","o","b","_","i","n","f","o","_","w","o","r","k","_","c","i","t","y">>,
                    <<"w","o","r","k","s","i","t","e","_","c","i","t","y">>>>],
     [key |-> <<"j","o","b","_","s","t","a","t","e">>,
      aliases |-> <<<<"j","o","b","_","i","n","f","o","_","w","o","r","k","_","s","t","a","t","e">>,
                    <<"w","o","r","k","s","i","t","e","_","s","t","a","t","e">>>>],
     [key |-> <<"j","o","b","_","p","o","s","t","a","l","_","c","o","d","e">>,
      aliases |-> <<<<"j","o","b","_","i","n","f","o","_","w","o","r","k","_","p","o","s","t","a","l","_","c","o","d","e">>,
                    <<"w","o","r","k","s","i","t","e","_","p","o","s","t","a","l","_","c","o","d","e">>>>],
     [key |-> <<"j","o","b","_","e","d","u","c","a","t","i","o","n","_","l","e","v","e","l">>,
      aliases |-> <<<<"j","o","b","_","i","n","f","o","_","e","d","u","c","a","t","i","o","n">>,
                    <<"m","i","n","i","m","u","m","_","e","d","u","c","a","t","i","o","n">>>>],
     [key |-> <<"j","o","b","_","e","d","u","c","a","t","i","o","n","_","m","a","j","o","r">>,
      aliases |-> <<<<"j","o","b","_","i","n","f","o","_","m","a","j","o","r">>,
                    <<"m","a","j","o","r","_","f","i","e","l","d","_","o","f","_","s","t","u","d","y">>>>],
     [key |-> <<"j","o","b","_","e","x","p","e","r","i","e","n","c","e","_","m","o","n","t","h","s">>,
      aliases |-> <<<<"j","o","b","_","i","n","f","o","_","e","x","p","e","r","i","e","n","c","e","_","n","u","m","_","m","o","n","t","h","s">>,
                    <<"r","e","q","u","i","r","e","d","_","e","x","p","e","r","i","e","n","c","e","_","m","o","n","t","h","s">>>>],
     [key |-> <<"j","o","b","_","w","a","g","e","_","o","f","f","e","r","_","f","r","o","m">>,
      aliases |-> <<<<"w","a","g","e","_","o","f","f","e","r","_","f","r","o","m","_","9","0","8","9">>,
                    <<"w","a","g","e","_","o","f","f","e","r","e","d","_","f","r","o","m","_","9","0","8","9">>,
                    <<"w","a","g","e","_","o","f","f","e","r","e","d","_","f","r","o","m">>,
                    <<"w","a","g","e","_","o","f","f","e","r","_","f","r","o","m">>>>],
     [key |-> <<"j","o","b","_","w","a","g","e","_","o","f","f","e","r","_","t","o">>,
      aliases |-> <<<<"w","a","g","e","_","o","f","f","e","r","_","t","o","_","9","0","8","9">>,
                    <<"w","a","g","e","_","o","f","f","e","r","e","d","_","t","o","_","9","0","8","9">>,
                    <<"w","a","g","e","_","o","f","f","e","r","e","d","_","t","o">>,
                    <<"w","a","g","e","_","o","f","f","e","r","_","t","o">>>>],
     [key |-> <<"j","o","b","_","w","a","g","e","_","o","f","f","e","r","_","u","n","i","t","_","o","f","_","p","a","y">>,
      aliases |-> <<<<"w","a","g","e","_","o","f","f","e","r","_","u","n","i","t","_","o","f","_","p","a","y","_","9","0","8","9">>,
                    <<"w","a","g","e","_","o","f","f","e","r","e","d","_","u","n","i","t","_","o","f","_","p","a","y","_","9","0","8","9">>,
                    <<"w","a","g","e","_","o","f","f","e","r","_","u","n","i","t","_","o","f","_","p","a","y">>>>],
     [key |-> <<"p","r","e","v","a","i","l","i","n","g","_","w","a","g","e">>,
      aliases |-> <<<<"p","w","_","a","m","o","u","n","t","_","9","0","8","9">>,
                    <<"p","w","_","w","a","g","e">>>>],
     [key |-> <<"p","r","e","v","a","i","l","i","n","g","_","w","a","g","e","_","u","n","i","t","_","o","f","_","p","a","y">>,
      aliases |-> <<<<"p","w","_","u","n","i","t","_","o","f","_","p","a","y","_","9","0","8","9">>,
                    <<"p","w","_","u","n","i","t","_","o","f","_","p","a","y">>>>],
     [key |-> <<"p","r","e","v","a","i","l","i","n","g","_","w","a","g","e","_","s","o","c","_","c","o","d","e">>,
      aliases |-> <<<<"p","w","_","s","o","c","_","c","o","d","e">>>>],
     [key |-> <<"p","r","e","v","a","i","l","i","n","g","_","w","a","g","e","_","s","o","c","_","t","i","t","l","e">>,
      aliases |-> <<<<"p","w","_","s","o","c","_","t","i","t","l","e">>>>],
     [key |-> <<"p","r","e","v","a","i","l","i","n","g","_","w","a","g","e","_","j","o","b","_","t","i","t","l","e">>,
      aliases |-> <<<<"p","w","_","j","o","b","_","t","i","t","l","e","_","9","0","8","9">>,
                    <<"p","w","_","j","o","b","_","t","i","t","l","e">>>>],
     [key |-> <<"p","r","e","v","a","i","l","i","n","g","_","w","a","g","e","_","s","k","i","l","l","_","l","e","v","e","l">>,
      aliases |-> <<<<"p","w","_","l","e","v","e","l","_","9","0","8","9">>,
                    <<"p","w","_","s","k","i","l","l","_","l","e","v","e","l">>>>],
     [key |-> <<"w","o","r","k","e","r","_","c","l","a","s","s","_","o","f","_","a","d","m","i","s","s","i","o","n">>,
      aliases |-> <<<<"c","l","a","s","s","_","o","f","_","a","d","m","i","s","s","i","o","n">>>>],
     [key |-> <<"w","o","r","k","e","r","_","c","o","u","n","t","r","y","_","o","f","_","c","i","t","i","z","e","n","s","h","i","p">>,
      aliases |-> <<<<"c","o","u","n","t","r","y","_","o","f","_","c","i","t","z","e","n","s","h","i","p">>,
                    <<"c","o","u","n","t","r","y","_","o","f","_","c","i","t","i","z","e","n","s","h","i","p">>>>],
     [key |-> <<"w","o","r","k","e","r","_","c","o","u","n","t","r","y","_","o","f","_","b","i","r","t","h">>,
      aliases |-> <<<<"f","w","_","i","n","f","o","_","b","i","r","t","h","_","c","o","u","n","t","r","y">>,
                    <<"f","o","r","e","i","g","n","_","w","o","r","k","e","r","_","b","i","r","t","h","_","c","o","u","n","t","r","y">>>>],
     [key |-> <<"w","o","r","k","e","r","_","e","d","u","c","a","t","i","o","n","_","l","e","v","e","l">>,
      aliases |-> <<<<"f","o","r","e","i","g","n","_","w","o","r","k","e","r","_","i","n","f","o","_","e","d","u","c","a","t","i","o","n">>,
                    <<"f","o","r","e","i","g","n","_","w","o","r","k","e","r","_","e","d","u","c","a","t","i","o","n">>>>],
     [key |-> <<"w","o","r","k","e","r","_","e","d","u","c","a","t","i","o","n","_","m","a","j","o","r">>,
      aliases |-> <<<<"f","o","r","e","i","g","n","_","w","o","r","k","e","r","_","i","n","f","o","_","m","a","j","o","r">>>>],
     [key |-> <<"w","o","r","k","e","r","_","e","d","u","c","a","t","i","o","n","_","y","e","a","r">>,
      aliases |-> <<<<"f","w","_","i","n","f","o","_","y","r","_","r","e","l","_","e","d","u","_","c","o","m","p","l","e","t","e","d">>,
                    <<"f","o","r","e","i","g","n","_","w","o","r","k","e","r","_","y","r","s","_","e","d","_","c","o","m","p">>>>],
     [key |-> <<"w","o","r","k","e","r","_","e","d","u","c","a","t","i","o","n","_","i","n","s","t","i","t","u","t","i","o","n">>,
      aliases |-> <<<<"f","o","r","e","i","g","n","_","w","o","r","k","e","r","_","i","n","f","o","_","i","n","s","t">>,
                    <<"f","o","r","e","i","g","n","_","w","o","r","k","e","r","_","i","n","s","t","_","o","f","_","e","d">>>>],
     [key |-> <<"w","o","r","k","e","r","_","e","d","u","c","a","t","i","o","n","_","c","o","u","n","t","r","y">>,
      aliases |-> <<<<"f","o","r","e","i","g","n","_","w","o","r","k","e","r","_","e","d","_","i","n","s","t","_","c","o","u","n","t","r","y">>>>] >>

_us_states ==
  << [short |-> <<"A","K">>, long |-> <<"A","l","a","s","k","a">>],
     [short |-> <<"A","L">>, long |-> <<"A","l","a","b","a","m","a">>],
     [short |-> <<"A","R">>, long |-> <<"A","r","k","a","n","s","a","s">>],
     [short |-> <<"A","S">>, long |-> <<"A","m","e","r","i","c","a","n"," ","S","a","m","o","a">>],
     [short |-> <<"A","Z">>, long |-> <<"A","r","i","z","o","n","a">>],
     [short |-> <<"C","A">>, long |-> <<"C","a","l","i","f","o","r","n","i","a">>],
     [short |-> <<"C","O">>, long |-> <<"C","o","l","o","r","a","d","o">>],
     [short |-> <<"C","T">>, long |-> <<"C","o","n","n","e","c","t","i","c","u","t">>],
     [short |-> <<"D","C">>, long |-> <<"D","i","s","t","r","i","c","t"," ","o","f"," ","C","o","l","u","m","b","i","a">>],
     [short |-> <<"D","E">>, long |-> <<"D","e","l","a","w","a","r","e">>],
     [short |-> <<"F","L">>, long |-> <<"F","l","o","r","i","d","a">>],
     [short |-> <<"G","A">>, long |-> <<"G","e","o","r","g","i","a">>],
     [short |-> <<"G","U">>, long |-> <<"G","u","a","m">>],
     [short |-> <<"H","I">>, long |-> <<"H","a","w","a","i","i">>],
     [short |-> <<"I","A">>, long |-> <<"I","o","w","a">>],
     [short |-> <<"I","D">>, long |-> <<"I","d","a","h","o">>],
     [short |-> <<"I","L">>, long |-> <<"I","l","l","i","n","o","i","s">>],
     [short |-> <<"I","N">>, long |-> <<"I","n","d","i","a","n","a">>],
     [short |-> <<"K","S">>, long |-> <<"K","a","n","s","a","s">>],
     [short |-> <<"K","Y">>, long |-> <<"K","e","n","t","u","c","k","y">>],
     [short |-> <<"L","A">>, long |-> <<"L","o","u","i","s","i","a","n","a">>],
     [short |-> <<"M","A">>, long |-> <<"M","a","s","s","a","c","h","u","s","e","t","t","s">>],
     [short |-> <<"M","D">>, long |-> <<"M","a","r","y","l","a","n","d">>],
     [short |-> <<"M","E">>, long |-> <<"M","a","i","n","e">>],
     [short |-> <<"M","I">>, long |-> <<"M","i","c","h","i","g","a","n">>],
     [short |-> <<"M","N">>, long |-> <<"M","i","n","n","e","s","o","t","a">>],
     [short |-> <<"M","O">>, long |-> <<"M","i","s","s","o","u","r","i">>],
     [short |-> <<"M","P">>, long |-> <<"N","o","r","t","h","e","r","n"," ","M","a","r","i","a","n","a"," ","I","s","l","a","n","d","s">>],
     [short |-> <<"M","S">>, long |-> <<"M","i","s","s","i","s","s","i","p","p","i">>],
     [short |-> <<"M","T">>, long |-> <<"M","o","n","t","a","n","a">>],
     [short |-> <<"N","C">>, long |-> <<"N","o","r","t","h"," ","C","a","r","o","l","i","n","a">>],
     [short |-> <<"N","D">>, long |-> <<"N","o","r","t","h"," ","D","a","k","o","t","a">>],
     [short |-> <<"N","E">>, long |-> <<"N","e","b","r","a","s","k","a">>],
     [short |-> <<"N","H">>, long |-> <<"N","e","w"," ","H","a","m","p","s","h","i","r","e">>],
     [short |-> <<"N","J">>, long |-> <<"N","e","w"," ","J","e","r","s","e","y">>],
     [short |-> <<"N","M">>, long |-> <<"N","e","w"," ","M","e","x","i","c","o">>],
     [short |-> <<"N","V">>, long |-> <<"N","e","v","a","d","a">>],
     [short |-> <<"N","Y">>, long |-> <<"N","e","w"," ","Y","o","r","k">>],
     [short |-> <<"O","H">>, long |-> <<"O","h","i","o">>],
     [short |-> <<"O","K">>, long |-> <<"O","k","l","a","h","o","m","a">>],
     [short |-> <<"O","R">>, long |-> <<"O","r","e","g","o","n">>],
     [short |-> <<"P","A">>, long |-> <<"P","e","n","n","s","y","l","v","a","n","i","a">>],
     [short |-> <<"P","R">>, long |-> <<"P","u","e","r","t","o"," ","R","i","c","o">>],
     [short |-> <<"R","I">>, long |-> <<"R","h","o","d","e"," ","I","s","l","a","n","d">>],
     [short |-> <<"S","C">>, long |-> <<"S","o","u","t","h"," ","C","a","r","o","l","i","n","a">>],
     [short |-> <<"S","D">>, long |-> <<"S","o","u","t","h"," ","D","a","k","o","t","a">>],
     [short |-> <<"T","N">>, long |-> <<"T","e","n","n","e","s","s","e","e">>],
     [short |-> <<"T","X">>, long |-> <<"T","e","x","a","s">>],
     [short |-> <<"U","T">>, long |-> <<"U","t","a","h">>],
     [short |-> <<"V","A">>, long |-> <<"V","i","r","g","i","n","i","a">>],
     [short |-> <<"V","I">>, long |-> <<"U",".","S","."," ","V","i","r","g","i","n"," ","I","s","l","a","n","d","s">>],
     [short |-> <<"V","T">>, long |-> <<"V","e","r","m","o","n","t">>],
     [short |-> <<"W","A">>, long |-> <<"W","a","s","h","i","n","g","t","o","n">>],
     [short |-> <<"W","I">>, long |-> <<"W","i","s","c","o","n","s","i","n">>],
     [short |-> <<"W","V">>, long |-> <<"W","e","s","t"," ","V","i","r","g","i","n","i","a">>],
     [short |-> <<"W","Y">>, long |-> <<"W","y","o","m","i","n","g">>] >>

_US_STATE_EXCEPTIONS ==
  << [short |-> <<"V","I">>,
      longs |-> << <<"V","i","r","g","i","n"," ","I","s","l","a","n","d","s">> >>] >>

\* geography.us_states()
us_states == _us_states

----------------------------------------------------------------------------
(* File input *)

None == -1

\* the least position where 'FY' is followed by a digit, 0 when there is none
fy_match(filename) ==
  LET hits == {i \in 1..(Len(filename) - 2) :
                 /\ filename[i] = "F"
                 /\ filename[i + 1] = "Y"
                 /\ IsDigit(filename[i + 2])}
  IN IF hits = {} THEN 0 ELSE CHOOSE i \in hits : \A j \in hits : i <= j

\* without lines 73-74: the digits as they stand
fiscal_year_as_written(filename) ==
  LET at == fy_match(filename) IN
  IF at = 0 THEN None
  ELSE int_of_str(digit_run(filename, at + 2, Len(filename)))

fiscal_year_from_filename(filename) ==
  LET at == fy_match(filename) IN
  IF at = 0 THEN None
  ELSE LET digits      == digit_run(filename, at + 2, Len(filename))
           fiscal_year == int_of_str(digits)
       IN IF fiscal_year < 2000 THEN fiscal_year + 2000 ELSE fiscal_year

----------------------------------------------------------------------------
(* DataFrames: an index of row labels and a sequence of labelled columns.   *)
(* Column labels may repeat (a rename can make them collide).               *)

\* src is a ghost field: the position of the raw column the cells came from
\* (0 for a column the pipeline adds itself)
Column(name, dtype, cells, src) ==
  [name |-> name, dtype |-> dtype, cells |-> cells, src |-> src]

Frame(index, cols) == [index |-> index, cols |-> cols]

nrows(data) == Len(data.index)

labels(data) == list([j \in 1..Len(data.cols) |-> data.cols[j].name])

\* the positions where a boolean mask holds, in order
where_true(mask) ==
  SelectSeq(list([i \in 1..Len(mask) |-> i]), LAMBDA i : mask[i])

\* data.iloc[rows]: the rows at the given positions, in the given order
take_rows(data, rows) ==
  Frame(list([k \in 1..Len(rows) |-> data.index[rows[k]]]),
        list([j \in 1..Len(data.cols) |->
           [data.cols[j] EXCEPT
              !.cells = list([k \in 1..Len(rows) |->
                                data.cols[j].cells[rows[k]]])]]))

\* Series.value_counts(): how often each value occurs (missing values counted
\* only with dropna=False)
value_counts(cells, dropna) ==
  LET seen == {cells[i] : i \in {k \in 1..Len(cells) : ~dropna \/ ~isna(cells[k])}}
  IN [v \in seen |-> Cardinality({i \in 1..Len(cells) : cells[i] = v})]

\* the .str accessor refuses a numeric column, also an empty one, and an
\* object column whose values are all numbers
str_accessor_ok(dtype, cells) ==
  /\ dtype \in {"object", "string"}
  /\ \/ dtype = "string"
     \/ \A i \in 1..Len(cells) : isna(cells[i])
     \/ \E i \in 1..Len(cells) : cells[i].kind = "text"

----------------------------------------------------------------------------
(* DataFrame subset extraction and label canonicalization *)

registry_keys(cols_with_aliases) ==
  {cols_with_aliases[k].key : k \in 1..Len(cols_with_aliases)}

\* {alias: k for k, v in cols_with_aliases.items() for alias in v}: a later
\* entry of the comprehension replaces an earlier one with the same alias
dealias(col, cols_with_aliases) ==
  LET owners == {k \in 1..Len(cols_with_aliases) :
                   \E a \in 1..Len(cols_with_aliases[k].aliases) :
                     cols_with_aliases[k].aliases[a] = col}
  IN IF owners = {} THEN col
     ELSE cols_with_aliases[CHOOSE k \in owners : \A m \in owners : m <= k].key

\* col.lower().replace(' ', '_')
normalize_label(col) == str_replace(str_lower(col), " ", "_")

\* data[[l1, l2, ...]]: for each requested label in turn, every column that
\* carries it, in column order
select_labels(cols, wanted) ==
  LET width   == Len(cols)
      at(p)   == ((p - 1) % width) + 1
      want(p) == ((p - 1) \div width) + 1
      pairs   == list([p \in 1..(Len(wanted) * width) |-> p])
      hits    == SelectSeq(pairs, LAMBDA p : cols[at(p)].name = wanted[want(p)])
  IN list([k \in 1..Len(hits) |-> cols[at(hits[k])]])

renamed_column(col, cols_with_aliases) ==
  LET normal == normalize_label(col.name)
      label  == dealias(normal, cols_with_aliases)
  IN [col EXCEPT !.name = label]

\* canonical_columns without line 97's selection: unmapped columns stay
canonical_columns_keep_unmapped(data, cols_with_aliases) ==
  Frame(data.index,
        list([j \in 1..Len(data.cols) |->
                renamed_column(data.cols[j], cols_with_aliases)]))

canonical_columns(data, cols_with_aliases) ==
  LET keys    == registry_keys(cols_with_aliases)
      renamed == list([j \in 1..Len(data.cols) |->
                         renamed_column(data.cols[j], cols_with_aliases)])
      names   == list([j \in 1..Len(data.cols) |-> renamed[j].name])
      wanted  == SelectSeq(names, LAMBDA l : l \in keys)
  IN Frame(data.index, select_labels(renamed, wanted))

fiscal_year_label == <<"f","i","s","c","a","l","_","y","e","a","r">>

\* data[label] = value: every column with the label is overwritten, or a new
\* column is appended
set_column(data, label, dtype, value) ==
  LET cells == list([i \in 1..nrows(data) |-> value]) IN
  IF \E j \in 1..Len(data.cols) : data.cols[j].name = label
  THEN Frame(data.index,
             list([j \in 1..Len(data.cols) |->
                     IF data.cols[j].name = label
                     THEN Column(label, dtype, cells, 0) ELSE data.cols[j]]))
  ELSE Frame(data.index, Append(data.cols, Column(label, dtype, cells, 0)))

\* .str.lower().str.replace(' ', '_') on one cell of the status column
status_text(c) ==
  IF c.kind = "text" THEN Text(str_replace(str_lower(c.s), " ", "_")) ELSE NA

is_cert_status(c) ==
  c.kind = "text" /\ \E k \in 1..Len(_CERT_STATUSES) : _CERT_STATUSES[k] = c.s

EmptyFrame == Frame(<<>>, <<>>)

\* DataFrame.squeeze().str is there only for a Series of text: one status
\* column, and not exactly one row (a 1x1 frame squeezes to a scalar)
status_is_series(found) ==
  /\ Len(found.cols) = 1
  /\ nrows(found) # 1
  /\ str_accessor_ok(found.cols[1].dtype, found.cols[1].cells)

column_stats(data) ==
  list([j \in 1..Len(data.cols) |->
          [name  |-> data.cols[j].name,
           count |-> Cardinality({i \in 1..nrows(data) :
                                    ~isna(data.cols[j].cells[i])}),
           rows  |-> nrows(data)]])

select_subset(data, fiscal_year) ==
  LET found == canonical_columns(data, _STATUS_COLUMN) IN
  IF ~status_is_series(found)
  THEN [raised |-> TRUE, data |-> EmptyFrame, rowstats |-> <<>>, colstats |-> <<>>]
  ELSE
    LET column == found.cols[1].cells
        status == list([i \in 1..nrows(data) |-> status_text(column[i])])
        canon  == canonical_columns(data, _DATA_COLUMNS)
        mask   == list([i \in 1..nrows(data) |-> is_cert_status(status[i])])
        rows   == where_true(mask)
        kept   == take_rows(canon, rows)
        year   == Num(fiscal_year)
        tagged == set_column(kept, fiscal_year_label, "int64", year)
    IN [raised   |-> FALSE,
        data     |-> tagged,
        rowstats |-> value_counts(status, FALSE),
        colstats |-> column_stats(tagged)]

----------------------------------------------------------------------------
(* Value canonicalization *)

\* what a canonicalizer hands back: the table (the caller's object, rewritten
\* in place) and the bad-value report, or an exception
Outcome(raised, data, bad) == [raised |-> raised, data |-> data, bad |-> bad]

no_bad == [c \in {} |-> <<>>]

column(data, label) ==
  data.cols[CHOOSE j \in 1..Len(data.cols) : data.cols[j].name = label]

has_column(data, label) ==
  \E j \in 1..Len(data.cols) : data.cols[j].name = label

\* orig[not_canonicalized].value_counts(), where not_canonicalized marks the
\* cells that are missing after the rewrite
bad_counts(orig, done) ==
  LET rows == where_true(list([i \in 1..Len(orig) |-> isna(done[i])]))
  IN value_counts(list([k \in 1..Len(rows) |-> orig[rows[k]]]), TRUE)

\* the labels of cols that data has
present_labels(data, cols) ==
  {cols[k] : k \in {m \in 1..Len(cols) : has_column(data, cols[m])}}

\* `for col in cols:` of a canonicalizer: the columns are rewritten in turn,
\* up to the first one that is not there or whose rewrite raises; rewritten
\* gives the new column for a label, raising the labels whose rewrite raises
for_columns(data, cols, raising, rewritten) ==
  LET fails == {k \in 1..Len(cols) :
                  ~has_column(data, cols[k]) \/ cols[k] \in raising}
      stop  == IF fails = {} THEN Len(cols) + 1 ELSE SetMin(fails)
      done  == {cols[k] : k \in 1..(stop - 1)}
      result == Frame(data.index,
                      list([j \in 1..Len(data.cols) |->
                              IF data.cols[j].name \in done
                              THEN rewritten[data.cols[j].name]
                              ELSE data.cols[j]]))
  IN Outcome(fails # {}, result,
             [c \in done |-> bad_counts(column(data, c).cells,
                                        column(result, c).cells)])

\* a table of (long, short) pairs applied in order:
\* for long, short in table.items(): s = re.sub('^' + long, short, s, flags=I)
\* (the test on Len(next) has each replacement computed before the next one
\* is begun)
RECURSIVE replace_each(_, _, _)
replace_each(s, table, k) ==
  IF k > Len(table) THEN s
  ELSE LET next == replace_prefix(s, table[k].long, table[k].short)
       IN IF Len(next) >= 0 THEN replace_each(next, table, k + 1) ELSE next

short_forms(table) == {table[k].short : k \in 1..Len(table)}

RECURSIVE exception_names(_)
exception_names(k) ==
  IF k > Len(_US_STATE_EXCEPTIONS) THEN <<>>
  ELSE list([a \in 1..Len(_US_STATE_EXCEPTIONS[k].longs) |->
               [short |-> _US_STATE_EXCEPTIONS[k].short,
                long  |-> _US_STATE_EXCEPTIONS[k].longs[a]]])
       \o exception_names(k + 1)

\* the dict `states` of canonicalize_us_states in its iteration order: the
\* long names of us_states(), then the exceptions
states == us_states \o exception_names(1)

\* ' 1234567890'
strip_chars == {" "} \cup {Digits[i] : i \in DOMAIN Digits}

\* one cell of canonicalize_us_states
us_state_value(c) ==
  LET text == astype_string(c) IN
  IF isna(text) THEN NA
  ELSE LET stripped == str_strip(text.s, strip_chars)
           replaced == replace_each(stripped, states, 1)
           token    == first_token(replaced)
       IN IF token \in short_forms(states) THEN Text(token) ELSE NA

\* lines 137-143 on one column
us_state_column(col) ==
  [col EXCEPT !.dtype = "object",
              !.cells = list([i \in 1..Len(col.cells) |->
                                us_state_value(col.cells[i])])]

canonicalize_us_states(data, cols) ==
  for_columns(data, cols, {},
              [c \in present_labels(data, cols) |-> us_state_column(column(data, c))])

\* without zfill: the run of digits as it was found
str_unfilled(s, width) == s

\* s.zfill(width) for a run of digits
str_zfill(s, width) ==
  IF Len(s) >= width THEN s
  ELSE list([i \in 1..(width - Len(s)) |-> "0"]) \o s

\* one cell of canonicalize_postal_codes
postal_code_value(c) ==
  LET text == astype_string(c) IN
  IF isna(text) THEN NA
  ELSE LET digits == {i \in 1..Len(text.s) : IsDigit(text.s[i])}
       IN IF digits = {} THEN NA
          ELSE Text(str_zfill(digit_run(text.s, SetMin(digits), 5), 5))

\* lines 152-155 on one column
postal_code_column(col) ==
  [col EXCEPT !.dtype = "string",
              !.cells = list([i \in 1..Len(col.cells) |->
                                postal_code_value(col.cells[i])])]

canonicalize_postal_codes(data, cols) ==
  for_columns(data, cols, {},
              [c \in present_labels(data, cols) |->
                 postal_code_column(column(data, c))])

is_numeric_dtype(dtype) == dtype \in {"int64", "float64"}

\* one cell of canonicalize_wages: only the cells of type str are rewritten
wage_value(c) ==
  IF c.kind = "text" THEN to_numeric(Text(str_remove(c.s, ","))) ELSE c

\* lines 165-167 on one column
wage_column(col) ==
  [col EXCEPT !.cells = list([i \in 1..Len(col.cells) |->
                                wage_value(col.cells[i])])]

\* data.loc[text,col].str is refused on a numeric column, also when the
\* selection is empty
canonicalize_wages(data, cols) ==
  for_columns(data, cols,
              {c \in present_labels(data, cols) :
                 is_numeric_dtype(column(data, c).dtype)},
              [c \in present_labels(data, cols) |-> wage_column(column(data, c))])

units ==
  << [long |-> <<"Y","E","A","R">>, short |-> <<"Y","R">>],
     [long |-> <<"M","O","N","T","H">>, short |-> <<"M","T","H">>],
     [long |-> <<"B","I","-","W","E","E","K","L","Y">>, short |-> <<"B","I">>],
     [long |-> <<"W","E","E","K">>, short |-> <<"W","K">>],
     [long |-> <<"H","O","U","R">>, short |-> <<"H","R">>] >>

\* canonicalize_unit_of_pay without lines 189-190: what is left after the
\* replacements stays in the cell
unit_of_pay_value_unchecked(c) ==
  IF c.kind # "text" THEN NA
  ELSE Text(replace_each(str_upper(c.s), units, 1))

\* one cell of canonicalize_unit_of_pay: .str gives missing for a cell that
\* is not text
unit_of_pay_value(c) ==
  IF c.kind # "text" THEN NA
  ELSE LET code == replace_each(str_upper(c.s), units, 1)
       IN IF code \in short_forms(units) THEN Text(code) ELSE NA

\* lines 185-190 on one column
unit_of_pay_column(col) ==
  [col EXCEPT !.cells = list([i \in 1..Len(col.cells) |->
                                unit_of_pay_value(col.cells[i])])]

canonicalize_unit_of_pay(data, cols) ==
  for_columns(data, cols,
              {c \in present_labels(data, cols) :
                 ~str_accessor_ok(column(data, c).dtype, column(data, c).cells)},
              [c \in present_labels(data, cols) |->
                 unit_of_pay_column(column(data, c))])

state_cols == << <<"e","m","p","l","o","y","e","r","_","s","t","a","t","e">>, <<"j","o","b","_","s","t","a","t","e">> >>

postal_cols == << <<"e","m","p","l","o","y","e","r","_","p","o","s","t","a","l","_","c","o","d","e">>, <<"j","o","b","_","p","o","s","t","a","l","_","c","o","d","e">> >>

wage_cols ==
  << <<"j","o","b","_","w","a","g","e","_","o","f","f","e","r","_","f","r","o","m">>, <<"j","o","b","_","w","a","g","e","_","o","f","f","e","r","_","t","o">>, <<"p","r","e","v","a","i","l","i","n","g","_","w","a","g","e">> >>

unit_of_pay_cols ==
  << <<"j","o","b","_","w","a","g","e","_","o","f","f","e","r","_","u","n","i","t","_","o","f","_","p","a","y">>, <<"p","r","e","v","a","i","l","i","n","g","_","w","a","g","e","_","u","n","i","t","_","o","f","_","p","a","y">> >>

numeric_cols ==
  << <<"f","i","s","c","a","l","_","y","e","a","r">>,
     <<"e","m","p","l","o","y","e","r","_","n","u","m","_","e","m","p","l","o","y","e","e","s">>,
     <<"e","m","p","l","o","y","e","r","_","y","e","a","r","_","e","s","t","a","b","l","i","s","h","e","d">>,
     <<"j","o","b","_","e","x","p","e","r","i","e","n","c","e","_","m","o","n","t","h","s">>,
     <<"j","o","b","_","w","a","g","e","_","o","f","f","e","r","_","f","r","o","m">>,
     <<"j","o","b","_","w","a","g","e","_","o","f","f","e","r","_","t","o">>,
     <<"p","r","e","v","a","i","l","i","n","g","_","w","a","g","e">>,
     <<"w","o","r","k","e","r","_","e","d","u","c","a","t","i","o","n","_","y","e","a","r">> >>

\* pd.to_numeric(data[col], errors='coerce') on one column: float64 when a
\* value is missing, int64 otherwise
numeric_column(col) ==
  LET cells == list([i \in 1..Len(col.cells) |-> to_numeric(col.cells[i])])
  IN [col EXCEPT !.dtype = IF \E i \in 1..Len(cells) : isna(cells[i])
                           THEN "float64" ELSE "int64",
                 !.cells = cells]

\* for col in numeric_cols: data[col] = pd.to_numeric(data[col], errors='coerce')
\* (nothing is added to the report)
coerce_numeric(data, cols) ==
  LET done == for_columns(data, cols, {},
                          [c \in present_labels(data, cols) |->
                             numeric_column(column(data, c))])
  IN Outcome(done.raised, done.data, no_bad)

\* one cell of .astype('string').str.upper()
upper_value(c) ==
  LET text == astype_string(c) IN
  IF isna(text) THEN NA ELSE Text(str_upper(text.s))

\* for col in data.columns.difference(numeric_cols): every other column
uppercase_others(data, cols) ==
  LET numeric == {cols[k] : k \in 1..Len(cols)} IN
  Outcome(FALSE,
          Frame(data.index,
                list([j \in 1..Len(data.cols) |->
                        IF data.cols[j].name \in numeric THEN data.cols[j]
                        ELSE [data.cols[j] EXCEPT
                                !.dtype = "string",
                                !.cells = list([i \in 1..nrows(data) |->
                                             upper_value(data.cols[j].cells[i])])]])),
          no_bad)

\* bad |= bad_, after a step that did not raise
and_then(before, after) ==
  IF before.raised THEN before
  ELSE Outcome(after.raised, after.data, after.bad @@ before.bad)

canonicalize_values(data) ==
  LET s1 == canonicalize_us_states(data, state_cols)
      s2 == and_then(s1, canonicalize_postal_codes(s1.data, postal_cols))
      s3 == and_then(s2, canonicalize_wages(s2.data, wage_cols))
      s4 == and_then(s3, canonicalize_unit_of_pay(s3.data, unit_of_pay_cols))
      s5 == and_then(s4, coerce_numeric(s4.data, numeric_cols))
  IN and_then(s5, uppercase_others(s5.data, numeric_cols))

----------------------------------------------------------------------------
(* Merging the yearly tables *)

RECURSIVE flatten(_)
flatten(seqs) ==
  IF seqs = <<>> THEN <<>> ELSE Head(seqs) \o flatten(Tail(seqs))

\* the characters of the model in code point order
CodePoints ==
  <<"\t", " ", ",", "-", ".", "/">> \o Digits \o UpperAlpha \o <<"_">> \o LowerAlpha

ord(c) == CHOOSE i \in DOMAIN CodePoints : CodePoints[i] = c

\* a < b for two str
str_less(a, b) ==
  \E i \in 1..(Len(a) + 1) :
    /\ i <= Len(b)
    /\ \A m \in 1..(i - 1) : a[m] = b[m]
    /\ i = Len(a) + 1 \/ ord(a[i]) < ord(b[i])

\* the order sort_values gives two cells of one column: missing values last
cell_less(a, b) ==
  CASE isna(a) -> FALSE
    [] isna(b) -> TRUE
    [] a.kind = "text" /\ b.kind = "text" -> str_less(a.s, b.s)
    [] OTHER -> a.n < b.n

\* row i comes before row j by the columns `by`, the first of them deciding
rows_less(data, by, i, j) ==
  \E k \in 1..Len(by) :
    /\ cell_less(column(data, by[k]).cells[i], column(data, by[k]).cells[j])
    /\ \A m \in 1..(k - 1) :
         column(data, by[m]).cells[i] = column(data, by[m]).cells[j]

rows_tied(data, by, i, j) ==
  \A k \in 1..Len(by) :
    column(data, by[k]).cells[i] = column(data, by[k]).cells[j]

\* data.sort_values(by): a stable sort of the rows on several columns
sort_values(data, by) ==
  LET n == nrows(data)
      rank(i) == 1 + Cardinality({j \in 1..n :
                        \/ rows_less(data, by, j, i)
                        \/ rows_tied(data, by, j, i) /\ j < i})
  IN take_rows(data, list([p \in 1..n |-> CHOOSE i \in 1..n : rank(i) = p]))

\* pd.concat(frames): the rows of all frames one after the other, under the
\* union of their columns in order of first appearance; a frame without a
\* column contributes missing values
concat(frames) ==
  LET every == flatten(list([k \in 1..Len(frames) |-> labels(frames[k])]))
      first == SelectSeq(list([p \in 1..Len(every) |-> p]),
                         LAMBDA p : \A q \in 1..(p - 1) : every[q] # every[p])
      part(k, label) ==
        IF has_column(frames[k], label)
        THEN column(frames[k], label).cells
        ELSE list([i \in 1..nrows(frames[k]) |-> NA])
      dtypes(label) ==
        {column(frames[k], label).dtype :
           k \in {m \in 1..Len(frames) :
                    has_column(frames[m], label) /\ nrows(frames[m]) > 0}}
      dtype(label) ==
        IF Cardinality(dtypes(label)) = 1
           /\ \A k \in 1..Len(frames) :
                nrows(frames[k]) > 0 => has_column(frames[k], label)
        THEN CHOOSE d \in dtypes(label) : TRUE
        ELSE "object"
  IN Frame(flatten(list([k \in 1..Len(frames) |-> frames[k].index])),
           list([p \in 1..Len(first) |->
                   Column(every[first[p]], dtype(every[first[p]]),
                          flatten(list([k \in 1..Len(frames) |->
                                          part(k, every[first[p]])])),
                          0)]))

\* data.drop_duplicates(label, keep='first')
drop_duplicates_keep_first(data, label) ==
  LET cells == column(data, label).cells
  IN take_rows(data, where_true(list([i \in 1..nrows(data) |->
                       \A j \in 1..(i - 1) : cells[j] # cells[i]])))

\* data.drop_duplicates(label, keep='last')
drop_duplicates(data, label) ==
  LET cells == column(data, label).cells
  IN take_rows(data, where_true(list([i \in 1..nrows(data) |->
                       \A j \in (i + 1)..nrows(data) : cells[j] # cells[i]])))

case_number_label == _DATA_COLUMNS[1].key

\* remove_duplicates with keep='first'
remove_duplicates_keep_first(data) ==
  drop_duplicates_keep_first(data, case_number_label)

remove_duplicates(data) == drop_duplicates(data, case_number_label)

\* data.set_index(label)
set_index(data, label) ==
  Frame(column(data, label).cells,
        SelectSeq(data.cols, LAMBDA col : col.name # label))

\* pd.DataFrame(columns=list(_DATA_COLUMNS.keys()))
empty_perm ==
  Frame(<<>>, list([k \in 1..Len(_DATA_COLUMNS) |->
                      Column(_DATA_COLUMNS[k].key, "object", <<>>, 0)]))

\* os.path.splitext(f): the name cut at its last dot, when something that is
\* not a dot stands before it
splitext(f) ==
  LET dots == {i \in 2..Len(f) :
                 f[i] = "." /\ \E m \in 1..(i - 1) : f[m] # "."}
      cut  == IF dots = {} THEN Len(f) + 1 ELSE SetMax(dots)
  IN <<SubSeq(f, 1, cut - 1), SubSeq(f, cut, Len(f))>>

\* os.path.basename(filename): what follows the last slash
basename(filename) ==
  LET slashes == {i \in 1..Len(filename) : filename[i] = "/"}
  IN IF slashes = {} THEN filename
     ELSE SubSeq(filename, SetMax(slashes) + 1, Len(filename))

\* the directory that preprocess_directory passes as cachedir; the model has
\* this one cache directory, and cached holds its files by name
output_dir == 1

\* read_xlsx(filename, cachedir). Without a cache directory the file is
\* parsed. With one: the pickled table named after the file's base name if
\* there is one, else the parsed file, which is then pickled under that name
read_xlsx(filename, cachedir, disk, cached) ==
  LET cachefile == splitext(basename(filename))[1] \o <<".","b","z","2">> IN
  IF cachedir = None
  THEN [data |-> disk[filename], cached |-> cached]
  ELSE IF cachefile \in DOMAIN cached
       THEN [data |-> cached[cachefile], cached |-> cached]
       ELSE [data |-> disk[filename],
             cached |-> (cachefile :> disk[filename]) @@ cached]

----------------------------------------------------------------------------
(* State *)

VARIABLES
  raw,    \* the raw table handed to canonical_columns / select_subset
  op,     \* which of the two has been called on it ("none" before the call)
  out,    \* what the call returned
  table,  \* the table object handed to a value canonicalizer
  given,  \* the cells that table held when it was handed over
  stage,  \* the canonicalizer that has run on it ("input" before the call)
  failed, \* whether that call raised
  bad,    \* the bad-value report it returned
  once,   \* the table as the first canonicalize_values left it
  disk,          \* input_dir: the table in each file, by file name
  cached,        \* output_dir: the pickled tables, by cache file name
  input_files,   \* preprocess_directory: the .xlsx names, in listing order
  pos,           \* the place in input_files of the loop's next ifile
  pc,            \* "loop", "done" or "raised"
  fiscal_year,   \* the loop's fiscal_year
  perm,          \* the list perm
  status_counts, \* the list status_counts, sorted by FY in the end
  avail_ratios,  \* the list avail_ratios, sorted by FY in the end
  merged,        \* perm after the concat, as written to perm.pkl
  merged_bad,    \* the report canonicalize_values returned for it
  xlsx           \* the last direct call of read_xlsx: its arguments and the
                 \* table it returned

subsetVars == <<raw, op, out>>

valuesVars == <<table, given, stage, failed, bad, once>>

driverVars ==
  <<disk, cached, input_files, pos, pc, fiscal_year, perm, status_counts,
    avail_ratios, merged, merged_bad, xlsx>>

vars == <<subsetVars, valuesVars, driverVars>>

----------------------------------------------------------------------------
(* Raw tables, as pd.read_excel delivers them *)

MaxCols == 2

MaxRows == 2

RawLabels ==
  { <<"C","A","S","E","_","S","T","A","T","U","S">>,
    <<"C","a","s","e"," ","S","t","a","t","u","s">>,
    <<"C","A","S","E","_","N","U","M","B","E","R">>,
    <<"C","A","S","E","_","N","O">>,
    <<"J","o","b"," ","C","i","t","y">>,
    <<"E","M","P","L","O","Y","E","R","_","N","A","M","E">> }

StatusPool ==
  { Text(<<"C","e","r","t","i","f","i","e","d">>),
    Text(<<" ","C","e","r","t","i","f","i","e","d">>),
    Text(<<"C","e","r","t","i","f","i","e","d","-","E","x","p","i","r","e","d">>),
    Text(<<"D","e","n","i","e","d">>),
    NA }

\* header rows: read_excel never delivers the same label twice
RawHeaders ==
  {h \in UNION {[1..n -> RawLabels] : n \in 1..MaxCols} :
     \A a, b \in 1..Len(h) : a # b => h[a] # h[b]}

is_status_label(l) == normalize_label(l) = _STATUS_COLUMN[1].key

\* the dtype read_excel gives a column: object when it holds text (or no
\* rows), float64 otherwise
read_dtype(cells) ==
  IF cells = <<>> \/ \E i \in 1..Len(cells) : cells[i].kind = "text"
  THEN "object" ELSE "float64"

filler(i, j) == Text(<<"r">> \o str_of_int(i) \o <<"c">> \o str_of_int(j))

\* the raw table with header h whose status column(s) hold st
raw_table(h, st) ==
  Frame(list([i \in 1..Len(st) |-> i - 1]),
        list([j \in 1..Len(h) |->
           LET cells == list([i \in 1..Len(st) |->
                           IF is_status_label(h[j]) THEN st[i] ELSE filler(i, j)])
           IN Column(h[j], read_dtype(cells), cells, j)]))

StatusColumns == UNION {[1..n -> StatusPool] : n \in 0..MaxRows}

NoResult == [raised |-> FALSE, data |-> EmptyFrame, rowstats |-> <<>>, colstats |-> <<>>]

\* read_xlsx has not been called
NoRead == [filename |-> <<>>, cachedir |-> None, data |-> EmptyFrame]

\* preprocess_directory is not under way
IdleDriver ==
  /\ disk = <<>>
  /\ cached = <<>>
  /\ input_files = <<>>
  /\ pos = 0
  /\ pc = "idle"
  /\ fiscal_year = None
  /\ perm = <<>>
  /\ status_counts = <<>>
  /\ avail_ratios = <<>>
  /\ merged = EmptyFrame
  /\ merged_bad = no_bad
  /\ xlsx = NoRead

\* no value canonicalizer is under way
IdleValues ==
  /\ table = EmptyFrame
  /\ given = EmptyFrame
  /\ stage = "idle"
  /\ failed = FALSE
  /\ bad = no_bad
  /\ once = EmptyFrame

FiscalYears == {2014, 2021}

----------------------------------------------------------------------------
(* Calls of the subset stage on one raw table *)

InitSubset ==
  /\ \E h \in RawHeaders, st \in StatusColumns : raw = raw_table(h, st)
  /\ op = "none"
  /\ out = NoResult
  /\ IdleValues
  /\ IdleDriver

CallCanonicalColumns ==
  /\ op = "none"
  /\ op' = "canonical_columns"
  /\ out' = [NoResult EXCEPT !.data = canonical_columns(raw, _DATA_COLUMNS)]
  /\ UNCHANGED <<raw, valuesVars, driverVars>>

CallSelectSubset ==
  /\ op = "none"
  /\ \E year \in FiscalYears :
       /\ op' = "select_subset"
       /\ out' = select_subset(raw, year)
  /\ UNCHANGED <<raw, valuesVars, driverVars>>

NextSubset == CallCanonicalColumns \/ CallSelectSubset

SpecSubset == InitSubset /\ [][NextSubset]_vars

----------------------------------------------------------------------------
(* Tables of canonical columns, as the value canonicalizers receive them *)

MaxLen == 2

\* every text of 1..n characters over an alphabet
RECURSIVE texts_over(_, _)
texts_over(alphabet, n) ==
  IF n = 0 THEN {}
  ELSE {<<a>> : a \in alphabet}
       \cup texts_over(alphabet, n - 1)
       \cup {Append(s, a) : s \in texts_over(alphabet, n - 1), a \in alphabet}

in_list(label, cols) == \E k \in 1..Len(cols) : cols[k] = label

StatePool ==
  { Text(<<"C","a","l","i","f","o","r","n","i","a">>), Text(<<"t","x"," ","1","2","3","4">>), Text(<<"U","n","k","n","o","w","n","s","t","a","n">>),
    Text(<<"T","X">>), Text(<<"N","e","w"," ","Y","o","r","k"," ","C","i","t","y">>), Text(<<"T","e","x","a","s","v","i","l","l","e">>),
    Text(<<"V","i","r","g","i","n"," ","I","s","l","a","n","d","s">>), Text(<<"U",".","S","."," ","V","i","r","g","i","n"," ","I","s","l","a","n","d","s">>), Num(5), NA }
  \cup {Text(s) : s \in texts_over({"t", "x", "T", "X", " "}, MaxLen)}

PostalPool ==
  { Text(<<"9","0","2","1","0","-","1","2","3","4">>), Text(<<"7">>), Text(<<"a","b","c">>), Text(<<"1","2","3","4","5","6">>),
    Num(7), Num(902101234), NA }
  \cup {Text(s) : s \in texts_over({"7", "0", "a", "-"}, MaxLen)}

WagePool ==
  { Text(<<"4","5",",","0","0","0">>), Text(<<"N","/","A">>), Text(<<"6","0","0","0","0">>), Num(60000), NA }
  \cup {Text(s) : s \in texts_over({"4", "0", ",", "x"}, MaxLen)}

UnitPool ==
  { Text(<<"Y","e","a","r","l","y">>), Text(<<"b","i","w","e","e","k","l","y">>), Text(<<"l","u","m","p"," ","s","u","m">>), Text(<<"Y","e","a","r">>),
    Text(<<"B","i","-","W","e","e","k","l","y">>), Text(<<"H","o","u","r">>), Text(<<"M","o","n","t","h">>), Text(<<"W","e","e","k">>), NA }
  \cup {Text(s) : s \in texts_over({"h", "r", "H", "R"}, MaxLen)}

NumericPool == { Text(<<"2","5","0">>), Text(<<"N","/","A">>), Num(12), NA }

TextPool == { Text(<<"E","n","g","i","n","e","e","r">>), Text(<<"a","b","c"," ","d","e","f">>), Num(3), NA }

\* the values a column of the given label is filled from
pool(label) ==
  CASE in_list(label, state_cols) -> StatePool
    [] in_list(label, postal_cols) -> PostalPool
    [] in_list(label, wage_cols) -> WagePool
    [] in_list(label, unit_of_pay_cols) -> UnitPool
    [] in_list(label, numeric_cols) -> NumericPool
    [] OTHER -> TextPool

\* three of them for the tables of several rows: a missing value, one that
\* canonicalizes and one that does not
core(label) ==
  CASE in_list(label, state_cols) -> <<NA, Text(<<"T","X">>), Text(<<"t","x"," ","1","2","3","4">>)>>
    [] in_list(label, postal_cols) -> <<NA, Text(<<"7">>), Text(<<"a","b","c">>)>>
    [] in_list(label, wage_cols) -> <<NA, Text(<<"4","5",",","0","0","0">>), Text(<<"N","/","A">>)>>
    [] in_list(label, unit_of_pay_cols) -> <<NA, Text(<<"Y","e","a","r">>), Text(<<"Y","e","a","r","l","y">>)>>
    [] in_list(label, numeric_cols) -> <<NA, Text(<<"2","5","0">>), Text(<<"N","/","A">>)>>
    [] OTHER -> <<NA, Text(<<"E","n","g","i","n","e","e","r">>), Num(3)>>

\* the columns of perm after set_index('case_number')
value_labels ==
  SelectSeq(list([k \in 1..Len(_DATA_COLUMNS) |-> _DATA_COLUMNS[k].key]),
            LAMBDA l : l # _DATA_COLUMNS[1].key)

\* the cells of the one column that is filled: one row of any value of the
\* pool, or several rows of the core values
fillings(label) ==
  {<<c>> : c \in pool(label)}
  \cup UNION {[1..n -> {core(label)[k] : k \in 1..3}] : n \in 2..MaxRows}

\* a column without text is float64 or, after a concat with object columns,
\* object
dtypes_of(cells) ==
  IF \E i \in 1..Len(cells) : cells[i].kind = "text"
  THEN {"object"} ELSE {"object", "float64"}

\* the table whose column `label` holds `cells` and whose other columns are
\* empty of values
value_table(label, dtype, cells) ==
  Frame(list([i \in 1..Len(cells) |-> i]),
        list([j \in 1..Len(value_labels) |->
                IF value_labels[j] = label
                THEN Column(label, dtype, cells, j)
                ELSE Column(value_labels[j], "object",
                            list([i \in 1..Len(cells) |-> NA]), j)]))

----------------------------------------------------------------------------
(* Calls of the value canonicalizers on one table *)

IdleSubset ==
  /\ raw = EmptyFrame
  /\ op = "idle"
  /\ out = NoResult

InitValues ==
  /\ \E j \in 1..Len(value_labels) :
       \E cells \in fillings(value_labels[j]) :
         \E dtype \in dtypes_of(cells) :
           table = value_table(value_labels[j], dtype, cells)
  /\ given = table
  /\ stage = "input"
  /\ failed = FALSE
  /\ bad = no_bad
  /\ once = EmptyFrame
  /\ IdleSubset
  /\ IdleDriver

\* the caller's table is rewritten in place; an exception leaves no report
Returned(name, outcome) ==
  /\ stage' = name
  /\ table' = outcome.data
  /\ failed' = outcome.raised
  /\ bad' = IF outcome.raised THEN no_bad ELSE outcome.bad
  /\ UNCHANGED <<given, subsetVars, driverVars>>

CallCanonicalizeUsStates ==
  /\ stage = "input"
  /\ Returned("canonicalize_us_states", canonicalize_us_states(table, state_cols))
  /\ UNCHANGED once

CallCanonicalizePostalCodes ==
  /\ stage = "input"
  /\ Returned("canonicalize_postal_codes",
              canonicalize_postal_codes(table, postal_cols))
  /\ UNCHANGED once

CallCanonicalizeWages ==
  /\ stage = "input"
  /\ Returned("canonicalize_wages", canonicalize_wages(table, wage_cols))
  /\ UNCHANGED once

CallCanonicalizeUnitOfPay ==
  /\ stage = "input"
  /\ Returned("canonicalize_unit_of_pay",
              canonicalize_unit_of_pay(table, unit_of_pay_cols))
  /\ UNCHANGED once

CallCanonicalizeValues ==
  /\ stage = "input"
  /\ Returned("canonicalize_values", canonicalize_values(table))
  /\ once' = table'

\* canonicalize_values on the table a first canonicalize_values returned
CallCanonicalizeValuesAgain ==
  /\ stage = "canonicalize_values"
  /\ ~failed
  /\ Returned("canonicalize_values_again", canonicalize_values(table))
  /\ UNCHANGED once

NextValues ==
  \/ CallCanonicalizeUsStates
  \/ CallCanonicalizePostalCodes
  \/ CallCanonicalizeWages
  \/ CallCanonicalizeUnitOfPay
  \/ CallCanonicalizeValues
  \/ CallCanonicalizeValuesAgain

SpecValues == InitValues /\ [][NextValues]_vars

----------------------------------------------------------------------------
(* Input directories *)

MaxFiles == 2

MaxStem == 4

CaseIds == << <<"A","-","1">>, <<"A","-","2">> >>

\* the file names of the directories of several files
CoreNames ==
  { <<"P","E","R","M","_","F","Y","1","4",".","x","l","s","x">>, <<"P","E","R","M","_","F","Y","2","0","2","1",".","x","l","s","x">>, <<"P","E","R","M","_","n","o","f","y",".","x","l","s","x">>,
    <<"o","l","d","_","F","Y","2","0","1","4",".","x","l","s","x">> }

\* more names, for the directories of one file
MoreNames ==
  { <<"a","_","F","Y","7","_","F","Y","2","0","2","1",".","x","l","s","x">>, <<"P","E","R","M","_","F","Y",".","x","l","s","x">>, <<"P","E","R","M","_","f","y","1","4",".","x","l","s","x">>,
    <<"F","Y","1","9","9","9",".","x","l","s","x">>, <<"x","F","Y","0","2","0","2","1","y",".","x","l","s","x">>,
    <<"P","E","R","M","_","F","Y","1","5",".","t","x","t">> }
  \cup {s \o <<".","x","l","s","x">> : s \in texts_over({"F", "Y", "1", "4"}, MaxStem)}

\* the listings os.listdir can give: the names of a directory in any order
Listings ==
  {<<f>> : f \in CoreNames \cup MoreNames}
  \cup {l \in UNION {[1..n -> CoreNames] : n \in {0} \cup (2..MaxFiles)} :
          \A a, b \in 1..Len(l) : a # b => l[a] # l[b]}

\* a yearly file: for each case of CaseIds no row, a certified row or a
\* denied row; the job title tells the file and the case
CaseStatuses == { <<>>, <<"C","e","r","t","i","f","i","e","d">>, <<"D","e","n","i","e","d">> }

yearly_table(filename, statuses) ==
  LET present == SelectSeq(list([c \in 1..Len(CaseIds) |-> c]),
                           LAMBDA c : statuses[c] # <<>>)
      header  == << IF fiscal_year_from_filename(filename) < 2020
                    THEN <<"C","A","S","E","_","N","O">> ELSE <<"C","A","S","E","_","N","U","M","B","E","R">>,
                    <<"C","A","S","E","_","S","T","A","T","U","S">>, <<"J","O","B","_","T","I","T","L","E">> >>
      cell(j, c) ==
        CASE j = 1 -> Text(CaseIds[c])
          [] j = 2 -> Text(statuses[c])
          [] OTHER -> Text(splitext(filename)[1] \o <<" ">> \o CaseIds[c])
  IN Frame(list([i \in 1..Len(present) |-> i - 1]),
           list([j \in 1..3 |->
                   Column(header[j], "object",
                          list([i \in 1..Len(present) |-> cell(j, present[i])]),
                          j)]))

all_certified == [c \in 1..Len(CaseIds) |-> <<"C","e","r","t","i","f","i","e","d">>]

\* what the files of a listing may hold: any yearly table in a file of the
\* core names that has a fiscal year, a fixed table in any other file
Disks(listing) ==
  LET names  == {listing[k] : k \in 1..Len(listing)}
      varied == {f \in names \cap CoreNames :
                   fiscal_year_from_filename(f) # None}
  IN {[f \in names |->
         yearly_table(f, IF f \in varied THEN choice[f] ELSE all_certified)] :
        choice \in [varied -> [1..Len(CaseIds) -> CaseStatuses]]}

----------------------------------------------------------------------------
(* preprocess_directory *)

\* Init: the state when the loop over input_files is entered
Init ==
  /\ \E listing \in Listings :
       /\ \E d \in Disks(listing) : disk = d
       /\ input_files = SelectSeq(listing, LAMBDA f : splitext(f)[2] = <<".","x","l","s","x">>)
  /\ cached = <<>>
  /\ pos = 1
  /\ pc = "loop"
  /\ fiscal_year = None
  /\ perm = <<empty_perm>>
  /\ status_counts = <<>>
  /\ avail_ratios = <<>>
  /\ merged = EmptyFrame
  /\ merged_bad = no_bad
  /\ xlsx = NoRead
  /\ IdleSubset
  /\ IdleValues

ifile == input_files[pos]

\* lines 266-269: a file name without a fiscal year is passed over
SkipFile ==
  /\ pc = "loop"
  /\ pos <= Len(input_files)
  /\ fiscal_year_from_filename(ifile) = None
  /\ fiscal_year' = None
  /\ pos' = pos + 1
  /\ UNCHANGED <<disk, cached, input_files, pc, perm, status_counts,
                 avail_ratios, merged, merged_bad, xlsx, subsetVars,
                 valuesVars>>

\* lines 266-278: the file is read, its subset selected and appended
SelectFile ==
  /\ pc = "loop"
  /\ pos <= Len(input_files)
  /\ fiscal_year_from_filename(ifile) # None
  /\ fiscal_year' = fiscal_year_from_filename(ifile)
  /\ LET read   == read_xlsx(ifile, output_dir, disk, cached)
         subset == select_subset(read.data, fiscal_year')
     IN /\ cached' = read.cached
        /\ IF subset.raised
           THEN /\ pc' = "raised"
                /\ UNCHANGED <<pos, perm, status_counts, avail_ratios>>
           ELSE /\ pc' = "loop"
                /\ pos' = pos + 1
                /\ perm' = Append(perm, subset.data)
                /\ status_counts' =
                     Append(status_counts,
                            [FY |-> fiscal_year', row |-> subset.rowstats])
                /\ avail_ratios' =
                     Append(avail_ratios,
                            [FY |-> fiscal_year', row |-> subset.colstats])
  /\ UNCHANGED <<disk, input_files, merged, merged_bad, xlsx, subsetVars,
                 valuesVars>>

\* pd.concat(stats).sort_index(): the yearly rows in the order of their FY
sort_index(stats) ==
  LET n == Len(stats)
      rank(i) == 1 + Cardinality({j \in 1..n :
                        \/ stats[j].FY < stats[i].FY
                        \/ stats[j].FY = stats[i].FY /\ j < i})
  IN list([p \in 1..n |-> stats[CHOOSE i \in 1..n : rank(i) = p]])

\* lines 280-296: the yearly tables are merged, sorted, deduplicated and
\* canonicalized
Finish ==
  /\ pc = "loop"
  /\ pos > Len(input_files)
  /\ status_counts' = sort_index(status_counts)
  /\ avail_ratios' = sort_index(avail_ratios)
  /\ LET sorted  == sort_values(concat(perm),
                                <<case_number_label, fiscal_year_label>>)
         indexed == set_index(remove_duplicates(sorted), case_number_label)
         outcome == canonicalize_values(indexed)
     IN /\ merged' = outcome.data
        /\ merged_bad' = IF outcome.raised THEN no_bad ELSE outcome.bad
        /\ pc' = IF outcome.raised THEN "raised" ELSE "done"
  /\ UNCHANGED <<disk, cached, input_files, pos, fiscal_year, perm, xlsx,
                 subsetVars, valuesVars>>

Next == SkipFile \/ SelectFile \/ Finish

Spec == Init /\ [][Next]_vars

----------------------------------------------------------------------------
(* Direct calls of read_xlsx while the source files change *)

\* the source files: two directories hold a file of the same name
SourceFiles ==
  { <<"i","n","/","P","E","R","M","_","F","Y","1","4",".","x","l","s","x">>, <<"o","l","d","/","P","E","R","M","_","F","Y","1","4",".","x","l","s","x">>,
    <<"i","n","/","P","E","R","M","_","F","Y","1","5",".","x","l","s","x">> }

\* what a source file may hold: no rows, certified rows or denied rows
SourceTables ==
  {yearly_table(<<"P","E","R","M","_","F","Y","1","4",".","x","l","s","x">>, [c \in 1..Len(CaseIds) |-> s]) :
     s \in CaseStatuses}

InitCache ==
  /\ disk \in [SourceFiles -> SourceTables]
  /\ cached = <<>>
  /\ xlsx = NoRead
  /\ input_files = <<>>
  /\ pos = 0
  /\ pc = "idle"
  /\ fiscal_year = None
  /\ perm = <<>>
  /\ status_counts = <<>>
  /\ avail_ratios = <<>>
  /\ merged = EmptyFrame
  /\ merged_bad = no_bad
  /\ IdleSubset
  /\ IdleValues

\* data = read_xlsx(filename) or data = read_xlsx(filename, output_dir)
CallReadXlsx ==
  /\ pc = "idle"
  /\ \E filename \in DOMAIN disk, cachedir \in {None, output_dir} :
       LET read == read_xlsx(filename, cachedir, disk, cached)
       IN /\ xlsx' = [filename |-> filename, cachedir |-> cachedir,
                      data |-> read.data]
          /\ cached' = read.cached
  /\ UNCHANGED <<disk, input_files, pos, pc, fiscal_year, perm, status_counts,
                 avail_ratios, merged, merged_bad, subsetVars, valuesVars>>

\* a source file is replaced by one with other contents
WriteFile ==
  /\ pc = "idle"
  /\ \E filename \in DOMAIN disk, data \in SourceTables :
       /\ data # disk[filename]
       /\ disk' = [disk EXCEPT ![filename] = data]
  /\ UNCHANGED <<cached, xlsx, input_files, pos, pc, fiscal_year, perm,
                 status_counts, avail_ratios, merged, merged_bad, subsetVars,
                 valuesVars>>

NextCache == CallReadXlsx \/ WriteFile

SpecCache == InitCache /\ [][NextCache]_vars

----------------------------------------------------------------------------
(* Properties of canonical_columns and select_subset (SpecSubset) *)

\* the normalized name the spec speaks of: lowercased, spaces to underscores
spec_normalized(name) ==
  list([i \in 1..Len(name) |->
          IF name[i] = " " THEN "_" ELSE lower_char(name[i])])

in_alias_list(name, key_entry) ==
  \E a \in 1..Len(key_entry.aliases) : key_entry.aliases[a] = name

in_some_alias_list(name) ==
  \E k \in 1..Len(_DATA_COLUMNS) : in_alias_list(name, _DATA_COLUMNS[k])

is_canonical_name(name) ==
  \E k \in 1..Len(_DATA_COLUMNS) : _DATA_COLUMNS[k].key = name

\* raw column j is part of the returned table
included(j) == \E k \in 1..Len(out.data.cols) : out.data.cols[k].src = j

output_names_canonical ==
  \A k \in 1..Len(out.data.cols) : is_canonical_name(out.data.cols[k].name)

\* C3 as stated: after canonical_columns(raw, _DATA_COLUMNS) every output
\* column name is a canonical field name, and a raw column is included only
\* when its normalized name occurs in some alias list.
C3_AsStated ==
  op = "canonical_columns" =>
    /\ output_names_canonical
    /\ \A j \in 1..Len(raw.cols) :
         included(j) => in_some_alias_list(spec_normalized(raw.cols[j].name))

\* C3 amended: every output column name is a canonical field name, and a raw
\* column is included exactly when its normalized name occurs in some alias
\* list or is itself a canonical field name; every other raw column is dropped.
C3_CanonicalColumns ==
  op = "canonical_columns" =>
    /\ output_names_canonical
    /\ \A j \in 1..Len(raw.cols) :
         included(j) <=>
           LET name == spec_normalized(raw.cols[j].name)
           IN in_some_alias_list(name) \/ is_canonical_name(name)

\* a call that kept a column named by a canonical name outside every alias
\* list, kept an aliased column, and dropped a column
C3_Witness ==
  /\ op = "canonical_columns"
  /\ \E j \in 1..Len(raw.cols) :
       /\ included(j)
       /\ ~in_some_alias_list(spec_normalized(raw.cols[j].name))
  /\ \E j \in 1..Len(raw.cols) : ~included(j)

C3_WitnessAlias ==
  /\ op = "canonical_columns"
  /\ \E j \in 1..Len(raw.cols) :
       /\ included(j)
       /\ in_some_alias_list(spec_normalized(raw.cols[j].name))
       /\ ~is_canonical_name(spec_normalized(raw.cols[j].name))

\* the raw columns that resolve to the canonical field of a registry entry
resolving(key_entry) ==
  {j \in 1..Len(raw.cols) :
     LET name == spec_normalized(raw.cols[j].name)
     IN in_alias_list(name, key_entry) \/ name = key_entry.key}

\* C10 as stated: when two raw columns resolve to the same canonical field,
\* the output of canonical_columns holds exactly one column for that field.
C10_AsStated ==
  op = "canonical_columns" =>
    \A k \in 1..Len(_DATA_COLUMNS) :
      Cardinality(resolving(_DATA_COLUMNS[k])) >= 2 =>
        Cardinality({c \in 1..Len(out.data.cols) :
                       out.data.cols[c].name = _DATA_COLUMNS[k].key}) = 1

\* the status canonicalization the spec states: lowercase, trim surrounding
\* whitespace, spaces to underscores
spec_status(s) ==
  LET low  == list([i \in 1..Len(s) |-> lower_char(s[i])])
      ink  == {i \in 1..Len(low) : low[i] \notin Whitespace}
      trim == IF ink = {} THEN <<>> ELSE SubSeq(low, SetMin(ink), SetMax(ink))
  IN list([i \in 1..Len(trim) |-> IF trim[i] = " " THEN "_" ELSE trim[i]])

spec_certified(c) ==
  /\ c.kind = "text"
  /\ \E k \in 1..Len(_CERT_STATUSES) : _CERT_STATUSES[k] = spec_status(c.s)

status_columns == {j \in 1..Len(raw.cols) : is_status_label(raw.cols[j].name)}

\* C2 as stated: whenever select_subset returns its filtered table for a raw
\* table with a status column, the table holds a row if and only if the
\* row's status, lowercased, trimmed and with spaces replaced by underscores,
\* is certified or certified-expired.
C2_AsStated ==
  (op = "select_subset" /\ Cardinality(status_columns) = 1 /\ ~out.raised) =>
    \A i \in 1..nrows(raw) :
      (\E k \in 1..nrows(out.data) : out.data.index[k] = raw.index[i])
        <=> spec_certified(raw.cols[CHOOSE j \in status_columns : TRUE].cells[i])

\* C2, further: select_subset returns a filtered table for every raw table
\* that has a status column.
C2_AlwaysReturns ==
  (op = "select_subset" /\ Cardinality(status_columns) = 1) => ~out.raised

----------------------------------------------------------------------------
(* Properties of the value canonicalizers (SpecValues) *)

cells_of(data, label) == column(data, label).cells

\* a value as text: a number by its decimal digits
spec_text(c) == IF c.kind = "num" THEN str_of_int(c.n) ELSE c.s

same_letters(a, b) ==
  /\ Len(a) = Len(b)
  /\ \A i \in 1..Len(a) : lower_char(a[i]) = lower_char(b[i])

begins_with(s, name) ==
  /\ Len(name) <= Len(s)
  /\ same_letters(SubSeq(s, 1, Len(name)), name)

\* s without its leading and trailing digits and whitespace
spec_trimmed(s) ==
  LET core_ == {i \in 1..Len(s) : ~IsDigit(s[i]) /\ s[i] \notin Whitespace}
  IN IF core_ = {} THEN <<>> ELSE SubSeq(s, SetMin(core_), SetMax(core_))

state_codes == {_us_states[k].short : k \in 1..Len(_us_states)}

\* the codes C4 allows for a value: the abbreviation it is, or the code of a
\* full name (or of 'Virgin Islands') it begins with, in any letter case;
\* none of them means missing
spec_state_codes(c) ==
  LET s == spec_trimmed(spec_text(c))
  IN {_us_states[k].short : k \in {m \in 1..Len(_us_states) :
         \/ same_letters(s, _us_states[m].short)
         \/ begins_with(s, _us_states[m].long)}}
     \cup {_US_STATE_EXCEPTIONS[k].short : k \in {m \in 1..Len(_US_STATE_EXCEPTIONS) :
             \E a \in 1..Len(_US_STATE_EXCEPTIONS[m].longs) :
               begins_with(s, _US_STATE_EXCEPTIONS[m].longs[a])}}

spec_state_ok(g, r) ==
  IF isna(g) \/ spec_state_codes(g) = {}
  THEN isna(r)
  ELSE r.kind = "text" /\ r.s \in spec_state_codes(g)

\* C4 as stated: after canonicalize_us_states every state cell whose value,
\* stripped of leading and trailing digits and whitespace, is a postal
\* abbreviation or begins with a full state name, in any letter case, holds
\* the uppercase code, every other cell is missing ("California" gives CA,
\* "tx 1234" gives TX, "Unknownstan" gives missing), and every result is one
\* of the 56 codes or missing.
C4_AsStated ==
  stage = "canonicalize_us_states" =>
    \A k \in 1..Len(state_cols) : \A i \in 1..nrows(given) :
      LET g == cells_of(given, state_cols[k])[i]
          r == cells_of(table, state_cols[k])[i]
      IN /\ spec_state_ok(g, r)
         /\ isna(r) \/ (r.kind = "text" /\ r.s \in state_codes)
         /\ g = Text(<<"C","a","l","i","f","o","r","n","i","a">>) => r = Text(<<"C","A">>)
         /\ g = Text(<<"t","x"," ","1","2","3","4">>) => r = Text(<<"T","X">>)
         /\ g = Text(<<"U","n","k","n","o","w","n","s","t","a","n">>) => r = NA

\* C4, the part that holds: every result of canonicalize_us_states is one of
\* the 56 codes or missing, and a value that begins with a full state name
\* followed by a space or by nothing gives that state's code.
C4_CodesOrMissing ==
  stage = "canonicalize_us_states" =>
    \A k \in 1..Len(state_cols) : \A i \in 1..nrows(given) :
      LET g == cells_of(given, state_cols[k])[i]
          r == cells_of(table, state_cols[k])[i]
      IN /\ isna(r) \/ (r.kind = "text" /\ r.s \in state_codes)
         /\ Cardinality(state_codes) = 56
         /\ g = Text(<<"C","a","l","i","f","o","r","n","i","a">>) => r = Text(<<"C","A">>)
         /\ g = Text(<<"U","n","k","n","o","w","n","s","t","a","n">>) => r = NA

unit_codes == {<<"Y","R">>, <<"M","T","H">>, <<"B","I">>, <<"W","K">>, <<"H","R">>}

is_unit_code_or_missing(r) == isna(r) \/ (r.kind = "text" /\ r.s \in unit_codes)

\* the long spellings C5 keeps: a value that is one of them, or already a
\* short code, in any letter case, gives the code
unit_spellings ==
  { <<<<"Y","E","A","R">>, <<"Y","R">>>>, <<<<"M","O","N","T","H">>, <<"M","T","H">>>>, <<<<"B","I","-","W","E","E","K","L","Y">>, <<"B","I">>>>,
    <<<<"W","E","E","K">>, <<"W","K">>>>, <<<<"H","O","U","R">>, <<"H","R">>>> }

spec_unit(g) ==
  IF g.kind # "text" THEN NA
  ELSE LET hits == {p \in unit_spellings :
                      same_letters(g.s, p[1]) \/ same_letters(g.s, p[2])}
       IN IF hits = {} THEN NA ELSE Text((CHOOSE p \in hits : TRUE)[2])

spec_postal(s) ==
  LET first == SetMin({i \in 1..Len(s) : IsDigit(s[i])})
      last  == SetMax({k \in first..Len(s) :
                         /\ k - first < 5
                         /\ \A m \in first..k : IsDigit(s[m])})
      run   == SubSeq(s, first, last)
      zeros == 5 - Len(run)
  IN list([i \in 1..5 |-> IF i <= zeros THEN "0" ELSE run[i - zeros]])

has_digit(s) == \E i \in 1..Len(s) : IsDigit(s[i])

\* the values of a column that C9 wants in the report: non-missing, no digit
undigited(cells) ==
  {cells[i] : i \in {m \in 1..Len(cells) :
                        ~isna(cells[m]) /\ ~has_digit(spec_text(cells[m]))}}

\* C9: after canonicalize_postal_codes (which does not raise) every postal
\* cell holds the first run of 1 to 5 digits of its value, left-padded with
\* zeros to 5 characters, or is missing when the value has no digit
\* ("90210-1234" gives "90210", "7" gives "00007", "abc" gives missing); the
\* report of the column counts exactly the non-missing values without a
\* digit, each as often as it occurs.
C9_PostalCodes ==
  stage = "canonicalize_postal_codes" =>
    /\ ~failed
    /\ \A k \in 1..Len(postal_cols) :
         LET orig == cells_of(given, postal_cols[k])
             done == cells_of(table, postal_cols[k])
         IN /\ \A i \in 1..nrows(given) :
                 /\ done[i] = IF isna(orig[i]) \/ ~has_digit(spec_text(orig[i]))
                              THEN NA
                              ELSE Text(spec_postal(spec_text(orig[i])))
                 /\ ~isna(done[i]) =>
                      /\ Len(done[i].s) = 5
                      /\ \A m \in 1..5 : IsDigit(done[i].s[m])
                 /\ orig[i] = Text(<<"9","0","2","1","0","-","1","2","3","4">>) => done[i] = Text(<<"9","0","2","1","0">>)
                 /\ orig[i] = Text(<<"7">>) => done[i] = Text(<<"0","0","0","0","7">>)
                 /\ orig[i] = Text(<<"a","b","c">>) => done[i] = NA
            /\ postal_cols[k] \in DOMAIN bad
            /\ DOMAIN bad[postal_cols[k]] = undigited(orig)
            /\ \A v \in undigited(orig) :
                 bad[postal_cols[k]][v] =
                   Cardinality({i \in 1..nrows(given) : orig[i] = v})

\* a table where "7" became "00007" and "abc" became missing and was counted
C9_Witness ==
  /\ stage = "canonicalize_postal_codes"
  /\ \E k \in 1..Len(postal_cols) : \E i, j \in 1..nrows(given) :
       /\ cells_of(given, postal_cols[k])[i] = Text(<<"7">>)
       /\ cells_of(table, postal_cols[k])[i] = Text(<<"0","0","0","0","7">>)
       /\ cells_of(given, postal_cols[k])[j] = Text(<<"a","b","c">>)
       /\ cells_of(table, postal_cols[k])[j] = NA
       /\ bad[postal_cols[k]][Text(<<"a","b","c">>)] = 1

\* the rows of a column whose value was there before and is missing after
lost_rows(label) ==
  {i \in 1..nrows(given) :
     ~isna(cells_of(given, label)[i]) /\ isna(cells_of(table, label)[i])}

\* the bad-value report counts value v under the column's name, once for
\* each row that lost it
reported(label, v, count) ==
  /\ label \in DOMAIN bad
  /\ v \in DOMAIN bad[label]
  /\ bad[label][v] = count

\* C7 as stated: when canonicalize_values returns, every cell of a column it
\* processes that went from non-missing to missing has its original value
\* counted in the bad-value report under the column's name.
C7_AsStated ==
  (stage = "canonicalize_values" /\ ~failed) =>
    \A j \in 1..Len(value_labels) :
      \A i \in lost_rows(value_labels[j]) :
        LET v == cells_of(given, value_labels[j])[i]
        IN reported(value_labels[j], v,
                    Cardinality({m \in lost_rows(value_labels[j]) :
                                   cells_of(given, value_labels[j])[m] = v}))

\* C7, the part that holds: what the four canonicalizers' own columns lose is
\* reported.
C7_CanonicalizerColumns ==
  (stage = "canonicalize_values" /\ ~failed) =>
    \A j \in 1..Len(value_labels) :
      (in_list(value_labels[j], state_cols \o postal_cols \o wage_cols
                                  \o unit_of_pay_cols)) =>
        \A i \in lost_rows(value_labels[j]) :
          LET v == cells_of(given, value_labels[j])[i]
          IN reported(value_labels[j], v,
                      Cardinality({m \in lost_rows(value_labels[j]) :
                                     cells_of(given, value_labels[j])[m] = v}))

\* C8 as stated: canonicalize_values on the table that canonicalize_values
\* returned leaves every cell unchanged, and its bad-value report is empty.
C8_AsStated ==
  stage = "canonicalize_values_again" =>
    /\ ~failed
    /\ \A j \in 1..Len(value_labels) :
         cells_of(table, value_labels[j]) = cells_of(once, value_labels[j])
    /\ \A label \in DOMAIN bad : DOMAIN bad[label] = {}

\* C8, what the second run does: it raises in canonicalize_wages, whose wage
\* columns the first run left numeric, after rewriting the state and postal
\* columns to the values they already held.
C8_SecondRunRaises ==
  stage = "canonicalize_values_again" =>
    /\ failed
    /\ \A j \in 1..Len(value_labels) :
         cells_of(table, value_labels[j]) = cells_of(once, value_labels[j])

\* C11 as stated: no stage function changes the table object its caller
\* passed in; once a value canonicalizer has been called (whether it returned
\* or raised), the caller's table holds in every column the cells it held
\* when it was handed over.
C11_AsStated ==
  stage \notin {"input", "idle"} =>
    \A j \in 1..Len(value_labels) :
      cells_of(table, value_labels[j]) = cells_of(given, value_labels[j])

----------------------------------------------------------------------------
(* Properties of preprocess_directory (Spec) *)

\* the rows the pipeline keeps: the certified rows of the files that have a
\* fiscal year, each with its case, its year, its job title and the place of
\* its file in the listing
kept ==
  UNION {{[case  |-> disk[input_files[k]].cols[1].cells[i].s,
           year  |-> fiscal_year_from_filename(input_files[k]),
           title |-> disk[input_files[k]].cols[3].cells[i].s,
           file  |-> k] :
            i \in {r \in 1..nrows(disk[input_files[k]]) :
                     spec_certified(disk[input_files[k]].cols[2].cells[r])}} :
         k \in {m \in 1..Len(input_files) :
                  fiscal_year_from_filename(input_files[m]) # None}}

\* at most one kept row for a case and a fiscal year
one_row_per_case_and_year ==
  \A a, b \in kept : (a.case = b.case /\ a.year = b.year) => a = b

job_title_label == <<"j","o","b","_","t","i","t","l","e">>

\* C1: when preprocess_directory has finished and the kept rows hold at most
\* one row per case and fiscal year, then for every case of the kept rows
\* the final table has exactly one row, and that row is the kept row of the
\* case with the greatest fiscal year, whatever the order of the listing.
C1_Deduplication ==
  (pc = "done" /\ one_row_per_case_and_year) =>
    \A a \in kept :
      LET rows   == {i \in 1..nrows(merged) : merged.index[i] = Text(a.case)}
          latest == CHOOSE b \in kept :
                      /\ b.case = a.case
                      /\ \A c \in kept : c.case = a.case => c.year <= b.year
      IN /\ Cardinality(rows) = 1
         /\ \A i \in rows :
              /\ cells_of(merged, fiscal_year_label)[i] = Num(latest.year)
              /\ cells_of(merged, job_title_label)[i]
                   = Text(str_upper(latest.title))

\* a finished run in which a case was kept from two fiscal years and the
\* file of the later year came first in the listing
C1_Witness ==
  /\ pc = "done"
  /\ one_row_per_case_and_year
  /\ \E a, b \in kept :
       /\ a.case = b.case
       /\ a.year < b.year
       /\ b.file < a.file

\* the places of a file name where 'FY' stands before a digit
spec_fy_places(name) ==
  {p \in 1..(Len(name) - 2) :
     name[p] = "F" /\ name[p + 1] = "Y" /\ IsDigit(name[p + 2])}

\* the first run of digits that follows 'FY'
spec_fy_digits(name) ==
  LET p == SetMin(spec_fy_places(name))
      q == SetMax({k \in (p + 2)..Len(name) :
                     \A m \in (p + 2)..k : IsDigit(name[m])})
  IN SubSeq(name, p + 2, q)

spec_year_ok(name, year) ==
  IF spec_fy_places(name) = {} THEN year = None
  ELSE LET run == spec_fy_digits(name)
           n   == int_of_str(run)
       IN /\ year \in {n, 2000 + n}
          /\ Len(run) = 2 => year = 2000 + n
          /\ (Len(run) = 4 /\ n >= 2000) => year = n
          /\ name = <<"P","E","R","M","_","F","Y","1","4",".","x","l","s","x">> => year = 2014
          /\ name = <<"P","E","R","M","_","F","Y","2","0","2","1",".","x","l","s","x">> => year = 2021

\* C6: each turn of the loop gives fiscal_year the integer of the first run
\* of digits after 'FY' in the file name, a two-digit nn as 20nn and a
\* four-digit year of 2000 or more unchanged, or None when there is no such
\* run; with None the file is passed over: nothing is raised, the lists are
\* left as they are and the loop goes on to the next file.
C6_FiscalYear ==
  [][(pc = "loop" /\ pos <= Len(input_files)) =>
       /\ spec_year_ok(input_files[pos], fiscal_year')
       /\ spec_fy_places(input_files[pos]) = {} =>
            /\ pc' = "loop"
            /\ pos' = pos + 1
            /\ perm' = perm
            /\ status_counts' = status_counts
            /\ avail_ratios' = avail_ratios]_vars

\* a run that passed over a first file without a fiscal year and then took
\* the second file, PERM_FY14.xlsx, with the year 2014
C6_Witness ==
  /\ pos = 3
  /\ spec_fy_places(input_files[1]) = {}
  /\ input_files[2] = <<"P","E","R","M","_","F","Y","1","4",".","x","l","s","x">>
  /\ fiscal_year = 2014
  /\ Len(perm) = 2
  /\ pc \in {"loop", "done"}

----------------------------------------------------------------------------
(* Properties of read_xlsx (SpecCache) *)

\* C12 as stated: whatever calls of read_xlsx and changes of source files
\* came before, a call of read_xlsx, with a cache directory or without one,
\* returns the table that the named source file holds at the time of the
\* call; so it never returns a cache entry written for another source file
\* or for other contents of the same file.
C12_AsStated ==
  [][CallReadXlsx => xlsx'.data = disk[xlsx'.filename]]_vars

====
